---- MODULE Spec2Model ----
(***************************************************************************)
(* Model of the migration engine of rqlite_client (src/src/migration.rs),  *)
(* of the parts of Sql and SchemaVersion it rests on, and of the Query     *)
(* builder (src/src/query.rs) with its URL.                                *)
(*                                                                         *)
(* Text is a sequence of one-character strings.  Option<T> is a sequence   *)
(* of length 0 (None) or 1 (Some).  Versions are u64 values scaled to the  *)
(* range 0..MAX.                                                           *)
(***************************************************************************)
EXTENDS Integers, Sequences, FiniteSets, TLC

\* ------------------------------------------------------------------ bounds
\* Largest number of migration units in a list.
MaxUnits == 3
\* schema_version::MAX (u64::MAX), scaled down: the largest version value.
MAX == 7

\* ------------------------------------------------------------- characters
NL == "\n"
BS == "\\"
SP == " "
\* char::is_whitespace, over the characters of the model
Whitespace == {SP, NL}
\* the first characters that make a line a comment
CommentChars == {"#", ";", "/", "-"}

None == <<>>
Some(x) == <<x>>

\* ------------------------------------------------------------ str helpers
\* str::lines: split at line feeds; a final line feed ends the last line
RECURSIVE LinesFrom(_, _, _)
LinesFrom(s, i, cur) ==
    IF i > Len(s) THEN (IF cur = <<>> THEN <<>> ELSE <<cur>>)
    ELSE IF s[i] = NL THEN <<cur>> \o LinesFrom(s, i + 1, <<>>)
    ELSE LinesFrom(s, i + 1, Append(cur, s[i]))

Lines(s) == LinesFrom(s, 1, <<>>)

RECURSIVE TrimStart(_)
TrimStart(s) ==
    IF s # <<>> /\ Head(s) \in Whitespace THEN TrimStart(Tail(s)) ELSE s

RECURSIVE TrimEnd(_)
TrimEnd(s) ==
    IF s # <<>> /\ s[Len(s)] \in Whitespace
    THEN TrimEnd(SubSeq(s, 1, Len(s) - 1))
    ELSE s

Trim(s) == TrimEnd(TrimStart(s))

\* the test both Sql::parse_str and the engine's loops apply to a line
IsStatementLine(line) == line # <<>> /\ line[1] \notin CommentChars

\* -------------------------------------------------------------------- Sql
\* mutant of the loop of Sql::parse_str: the comment test looks at the
\* untrimmed line
RECURSIVE ParseLines_mut_raw(_, _)
ParseLines_mut_raw(ls, filter_sql) ==
    IF ls = <<>> THEN filter_sql
    ELSE LET raw == Head(ls)
             is_multi_line == raw # <<>> /\ raw[Len(raw)] = BS
             line == IF is_multi_line
                     THEN TrimStart(SubSeq(raw, 1, Len(raw) - 1))
                     ELSE Trim(raw)
             pushed == IF line # <<>> /\ raw[1] \notin CommentChars
                       THEN filter_sql \o line
                                \o (IF is_multi_line THEN <<>> ELSE <<NL>>)
                       ELSE filter_sql
         IN ParseLines_mut_raw(Tail(ls), pushed)

\* mutant of the loop of Sql::parse_str: a line feed after every kept line
RECURSIVE ParseLines_mut_feed(_, _)
ParseLines_mut_feed(ls, filter_sql) ==
    IF ls = <<>> THEN filter_sql
    ELSE LET raw == Head(ls)
             is_multi_line == raw # <<>> /\ raw[Len(raw)] = BS
             line == IF is_multi_line
                     THEN TrimStart(SubSeq(raw, 1, Len(raw) - 1))
                     ELSE Trim(raw)
             pushed == IF IsStatementLine(line)
                       THEN filter_sql \o line \o <<NL>>
                       ELSE filter_sql
         IN ParseLines_mut_feed(Tail(ls), pushed)

\* mutant of the loop of Sql::parse_str: a continued line is trimmed at both
\* ends
RECURSIVE ParseLines_mut_trim(_, _)
ParseLines_mut_trim(ls, filter_sql) ==
    IF ls = <<>> THEN filter_sql
    ELSE LET raw == Head(ls)
             is_multi_line == raw # <<>> /\ raw[Len(raw)] = BS
             line == IF is_multi_line
                     THEN Trim(SubSeq(raw, 1, Len(raw) - 1))
                     ELSE Trim(raw)
             pushed == IF IsStatementLine(line)
                       THEN filter_sql \o line
                                \o (IF is_multi_line THEN <<>> ELSE <<NL>>)
                       ELSE filter_sql
         IN ParseLines_mut_trim(Tail(ls), pushed)

\* the body of the loop of Sql::parse_str, folded over the physical lines
RECURSIVE ParseLines(_, _)
ParseLines(ls, filter_sql) ==
    IF ls = <<>> THEN filter_sql
    ELSE LET raw == Head(ls)
             is_multi_line == raw # <<>> /\ raw[Len(raw)] = BS
             line == IF is_multi_line
                     THEN TrimStart(SubSeq(raw, 1, Len(raw) - 1))
                     ELSE Trim(raw)
             pushed == IF IsStatementLine(line)
                       THEN filter_sql \o line
                                \o (IF is_multi_line THEN <<>> ELSE <<NL>>)
                       ELSE filter_sql
         IN ParseLines(Tail(ls), pushed)

parse_str(sql) == TrimEnd(ParseLines(Lines(sql), <<>>))

\* impl From<&str> for Sql: borrowed when the text is already normalized
SqlFrom(value) ==
    LET sql_string == parse_str(value)
    IN IF value = sql_string
       THEN [sql_str |-> Some(value), sql_string |-> None]
       ELSE [sql_str |-> None, sql_string |-> Some(sql_string)]

as_str(sql) ==
    IF sql.sql_string # None THEN sql.sql_string[1] ELSE sql.sql_str[1]

SqlLines(sql) == Lines(as_str(sql))

\* ------------------------------------------------------------------ Value
\* serde_json::Value, as far as the engine uses it
ValString(s) == [t |-> "String", s |-> s, a |-> <<>>, n |-> 0]
ValArray(a) == [t |-> "Array", s |-> <<>>, a |-> a, n |-> 0]
ValNumber(n) == [t |-> "Number", s |-> <<>>, a |-> <<>>, n |-> n]
is_string(v) == v.t = "String"
\* Value::as_u64
as_u64(v) == IF v.t = "Number" /\ v.n >= 0 THEN Some(v.n) ELSE None

\* ---------------------------------------------------------- SchemaVersion
\* impl Display for SchemaVersion
Display(version) == ToString(version)

\* mutant of checked_sub: the subtraction is not checked
checked_sub_mut_wrap(version, value) == Some(version - value)

\* SchemaVersion::checked_sub for a non-negative value
checked_sub(version, value) ==
    IF version >= value THEN Some(version - value) ELSE None

\* Option::unwrap_or_default
unwrap_or_default(opt) == IF opt = None THEN 0 ELSE opt[1]

\* ------------------------------------------------------------------ Query
\* Largest duration, in seconds, a freshness or a timeout is set to.
MaxSecs == 2

\* DurationString::to_string, for a duration of whole seconds below a minute
DurationString(secs) == IF secs > 0 THEN <<ToString(secs), "s">> ELSE <<>>

\* impl Display for ConsistencyLevel
LevelDisplay(level) ==
    CASE level = "None" -> "none"
      [] level = "Strong" -> "strong"
      [] level = "Weak" -> "weak"
      [] OTHER -> ""

\* impl Display for Endpoint
EndpointDisplay(endpoint) ==
    CASE endpoint = "Execute" -> "/db/execute"
      [] endpoint = "Request" -> "/db/request"
      [] OTHER -> "/db/query"

\* the state types of query::state the builder reaches
SingleStates == {"NoLevel", "LevelNone", "LevelWeak", "LevelStrong"}
MultiStates == {"NoLevelMulti", "LevelNoneMulti", "LevelWeakMulti", "LevelStrongMulti"}

\* the state type reached by appending a statement
MultiState(state) ==
    CASE state = "NoLevel" -> "NoLevelMulti"
      [] state = "LevelNone" -> "LevelNoneMulti"
      [] state = "LevelWeak" -> "LevelWeakMulti"
      [] state = "LevelStrong" -> "LevelStrongMulti"
      [] OTHER -> state

\* the state type a level setter returns: Level<level> or Level<level>Multi
LevelState(level, state) ==
    LET single == CASE level = "None" -> "LevelNone"
                    [] level = "Weak" -> "LevelWeak"
                    [] OTHER -> "LevelStrong"
    IN IF state \in MultiStates THEN MultiState(single) ELSE single

QueryNew ==
    [consistency_level |-> Some("Nolevel"), endpoint |-> "Query",
     freshness |-> None,
     is_associative |-> FALSE, is_noleader |-> FALSE, is_nonvoters |-> FALSE,
     is_pretty |-> FALSE, is_queue |-> FALSE, is_redirect |-> TRUE,
     is_timing |-> FALSE, is_transaction |-> FALSE, is_url_modified |-> FALSE,
     is_wait |-> FALSE, sql |-> <<>>, state |-> "NoLevel",
     timeout |-> None, timeout_request |-> None, url_cache |-> None]

url_modified(q) == [q EXCEPT !.is_url_modified = TRUE]

\* fn transition: every field is taken over but the level, the freshness and
\* the state type
transition(src, state, consistency_level, freshness) ==
    [src EXCEPT !.consistency_level = Some(consistency_level),
                !.freshness = freshness,
                !.state = state]

disable_redirect(q) ==
    IF q.is_redirect THEN url_modified([q EXCEPT !.is_redirect = FALSE]) ELSE q

set_associative(q) ==
    IF q.is_associative THEN q
    ELSE url_modified([q EXCEPT !.is_associative = TRUE])

set_endpoint(q, endpoint) ==
    IF q.endpoint = endpoint THEN q
    ELSE url_modified([q EXCEPT !.endpoint = endpoint])

\* mutant of set_pretty: the flag is flipped
set_pretty_mut_flip(q) == url_modified([q EXCEPT !.is_pretty = ~@])

set_pretty(q) ==
    IF q.is_pretty THEN q ELSE url_modified([q EXCEPT !.is_pretty = TRUE])

set_timeout(q, timeout) == [q EXCEPT !.timeout = Some(timeout)]

set_timeout_request(q, timeout_request) ==
    [q EXCEPT !.timeout_request = Some(timeout_request)]

set_timing(q) ==
    IF q.is_timing THEN q ELSE url_modified([q EXCEPT !.is_timing = TRUE])

\* Query<NoLevel>::switch_multi
switch_multi(q) ==
    transition(q, "NoLevelMulti", q.consistency_level[1], q.freshness)

\* mutant of enable_transaction_helper: the endpoint is not looked at
enable_transaction_helper_mut_any(q) ==
    url_modified([q EXCEPT !.is_transaction = TRUE])

\* mutant of enable_transaction_helper: the endpoint test is inverted
enable_transaction_helper_mut_inverted(q) ==
    IF q.endpoint # "Query" THEN q
    ELSE url_modified([q EXCEPT !.is_transaction = TRUE])

enable_transaction_helper(q) ==
    IF q.endpoint = "Query" THEN q
    ELSE url_modified([q EXCEPT !.is_transaction = TRUE])

set_freshness_helper(q, freshness) ==
    IF q.freshness = Some(freshness) THEN q
    ELSE url_modified([q EXCEPT !.freshness = Some(freshness)])

\* mutant of set_sql_helper: the statements held before are kept
set_sql_helper_mut_keep(q, sql) ==
    IF q.endpoint = "Query"
    THEN [tag |-> "Ok", val |-> url_modified([q EXCEPT !.sql = Append(@, sql)])]
    ELSE [tag |-> "Panic", val |-> <<"set_sql only Query">>]

\* set_sql_helper: Err stands for the panic on another endpoint than Query
set_sql_helper(q, sql) ==
    IF q.endpoint = "Query"
    THEN [tag |-> "Ok", val |-> url_modified([q EXCEPT !.sql = <<sql>>])]
    ELSE [tag |-> "Panic", val |-> <<"set_sql only Query">>]

\* mutant of push_sql_helper: a string is appended as it is
push_sql_helper_mut_nopromote(q, sql) ==
    LET self_mod == IF q.endpoint = "Query" /\ Len(q.sql) <= 1
                    THEN url_modified(q) ELSE q
    IN [self_mod EXCEPT !.sql = Append(self_mod.sql, sql)]

push_sql_helper(q, sql) ==
    LET self_mod == IF q.endpoint = "Query" /\ Len(q.sql) <= 1
                    THEN url_modified(q) ELSE q
        stmt == IF is_string(sql) THEN ValArray(<<sql>>) ELSE sql
    IN [self_mod EXCEPT !.sql = Append(self_mod.sql, stmt)]

\* push_sql_value_slice_helper: the slice becomes one array value
push_sql_value_slice_helper(q, sql) == push_sql_helper(q, ValArray(sql))

\* mutant of push_sql: the state type is kept
push_sql_mut_stay(q, sql) == push_sql_helper(q, sql)

\* push_sql of a single-statement state (a transition to its multi-statement
\* state) and of a multi-statement state
push_sql(q, sql) ==
    LET self_mod == push_sql_helper(q, sql)
    IN IF q.state \in MultiStates THEN self_mod
       ELSE transition(self_mod, MultiState(self_mod.state),
                       self_mod.consistency_level[1], self_mod.freshness)

push_sql_str(q, sql) == push_sql(q, ValString(sql))

push_sql_values(q, sql) ==
    LET self_mod == push_sql_value_slice_helper(q, sql)
    IN IF q.state \in MultiStates THEN self_mod
       ELSE transition(self_mod, MultiState(self_mod.state),
                       self_mod.consistency_level[1], self_mod.freshness)

\* set_none, set_weak, set_strong of every state type that has them
set_none(q) == transition(q, LevelState("None", q.state), "None", None)
set_weak(q) == transition(q, LevelState("Weak", q.state), "Weak", None)
set_strong(q) == transition(q, LevelState("Strong", q.state), "Strong", None)

\* mutant of set_wait: the flag is set whether the write is queued or not
set_wait_mut_always(q) == [q EXCEPT !.is_wait = TRUE]

\* Query<NoLevelMulti>::set_queue and set_wait
set_queue(q) == [q EXCEPT !.is_queue = TRUE]
set_wait(q) == IF q.is_queue THEN [q EXCEPT !.is_wait = TRUE] ELSE q

\* mutant of ConnectionExecute: the query stays in the single-statement state
ConnectionExecute_mut_single == set_endpoint(QueryNew, "Execute")

\* Connection::execute, Connection::query and Connection::request
ConnectionExecute == switch_multi(set_endpoint(QueryNew, "Execute"))
ConnectionQuery == QueryNew
ConnectionRequest == switch_multi(set_endpoint(QueryNew, "Request"))

\* the arguments of create_url_query joined with '&'
RECURSIVE JoinArgs(_, _)
JoinArgs(query_args, i) ==
    IF i > Len(query_args) THEN <<>>
    ELSE (IF i # 1 THEN <<"&">> ELSE <<>>) \o query_args[i]
             \o JoinArgs(query_args, i + 1)

\* mutant of QueryArgs: the arguments in the order the fields are declared,
\* the level before the flags
QueryArgs_mut_order(q) ==
    LET flag(is_set, name) == IF is_set THEN << <<name>> >> ELSE <<>>
        level == q.consistency_level[1]
    IN (IF q.consistency_level # None /\ level # "Nolevel"
        THEN << <<"level=", LevelDisplay(level)>> >>
             \o (IF level = "None" /\ q.freshness # None
                 THEN << <<"freshness=">> \o DurationString(q.freshness[1]) >>
                 ELSE <<>>)
        ELSE <<>>)
       \o flag(q.is_associative, "associative")
       \o flag(q.is_noleader, "noleader")
       \o flag(q.is_nonvoters, "nonvoters")
       \o flag(q.is_pretty, "pretty")
       \o flag(q.is_queue, "queue")
       \o flag(~q.is_redirect, "redirect")
       \o flag(q.is_timing, "timing")
       \o flag(q.is_transaction, "transaction")
       \o flag(q.is_wait, "wait")
       \o (IF q.timeout # None
           THEN << <<"timeout=">> \o DurationString(q.timeout[1]) >> ELSE <<>>)

\* mutant of QueryArgs: the level argument is written for every stored level,
\* the unset one too
QueryArgs_mut_nolevel(q) ==
    LET flag(is_set, name) == IF is_set THEN << <<name>> >> ELSE <<>>
        level == q.consistency_level[1]
    IN flag(q.is_associative, "associative")
       \o flag(q.is_noleader, "noleader")
       \o flag(q.is_nonvoters, "nonvoters")
       \o flag(q.is_pretty, "pretty")
       \o flag(q.is_queue, "queue")
       \o flag(~q.is_redirect, "redirect")
       \o flag(q.is_timing, "timing")
       \o flag(q.is_transaction, "transaction")
       \o flag(q.is_wait, "wait")
       \o (IF q.timeout # None
           THEN << <<"timeout=">> \o DurationString(q.timeout[1]) >> ELSE <<>>)
       \o (IF q.consistency_level # None
           THEN << <<"level=", LevelDisplay(level)>> >>
                \o (IF level = "None" /\ q.freshness # None
                    THEN << <<"freshness=">> \o DurationString(q.freshness[1]) >>
                    ELSE <<>>)
           ELSE <<>>)

\* the arguments create_url_query collects, in its order
QueryArgs(q) ==
    LET flag(is_set, name) == IF is_set THEN << <<name>> >> ELSE <<>>
        level == q.consistency_level[1]
    IN flag(q.is_associative, "associative")
       \o flag(q.is_noleader, "noleader")
       \o flag(q.is_nonvoters, "nonvoters")
       \o flag(q.is_pretty, "pretty")
       \o flag(q.is_queue, "queue")
       \o flag(~q.is_redirect, "redirect")
       \o flag(q.is_timing, "timing")
       \o flag(q.is_transaction, "transaction")
       \o flag(q.is_wait, "wait")
       \o (IF q.timeout # None
           THEN << <<"timeout=">> \o DurationString(q.timeout[1]) >> ELSE <<>>)
       \o (IF q.consistency_level # None /\ level # "Nolevel"
           THEN << <<"level=", LevelDisplay(level)>> >>
                \o (IF level = "None" /\ q.freshness # None
                    THEN << <<"freshness=">> \o DurationString(q.freshness[1]) >>
                    ELSE <<>>)
           ELSE <<>>)

\* mutant of create_url_query: the first statement is embedded however many
\* statements there are
create_url_query_mut_first(q) ==
    LET query_args == QueryArgs(q)
        query == JoinArgs(query_args, 1)
    IN IF q.endpoint = "Query" /\ Len(q.sql) >= 1 /\ is_string(q.sql[1])
       THEN query \o (IF query_args = <<>> THEN <<"q=">> ELSE <<"&q=">>)
                  \o q.sql[1].s
       ELSE query

\* Query::create_url_query (feature url: the statement is not encoded here)
create_url_query(q) ==
    LET query_args == QueryArgs(q)
        query == JoinArgs(query_args, 1)
    IN IF q.endpoint = "Query" /\ Len(q.sql) = 1 /\ is_string(q.sql[1])
       THEN query \o (IF query_args = <<>> THEN <<"q=">> ELSE <<"&q=">>)
                  \o q.sql[1].s
       ELSE query

\* Query::create_url: the query with its cache filled; the URL returned is
\* the cached one
create_url(q) ==
    IF q.is_url_modified \/ q.url_cache = None
    THEN [q EXCEPT !.url_cache =
             Some([path |-> EndpointDisplay(q.endpoint),
                   query |-> LET query == create_url_query(q)
                             IN IF query = <<>> THEN None ELSE Some(query)])]
    ELSE q

\* impl Display for Query: the URL a read returns now
to_string(q) == create_url(q).url_cache[1]

\* ----------------------------------------------------------------- errors
\* MigrationError
MigErr(kind, status, msg) == [kind |-> kind, status |-> status, msg |-> msg]
NoData == MigErr("NoData", 0, <<>>)
NoRequestBuilder == MigErr("NoRequestBuilder", 0, <<>>)
DataMalformat(msg) == MigErr("DataMalformat", 0, msg)
QueryFail(msg) == MigErr("QueryFail", 0, msg)
TransactionFail(status, msg) == MigErr("TransactionFail", status, msg)
Internal(msg) == MigErr("Internal", 0, msg)

\* crate::Error, as an executor may return it
CrateErr(kind, status, msg, inner) ==
    [kind |-> kind, status |-> status, msg |-> msg, inner |-> inner]

\* mutant of MigrationErrorFrom: an HTTP error becomes a failed query
MigrationErrorFrom_mut_http(err) ==
    CASE err.kind = "HttpError" -> QueryFail(err.msg)
      [] err.kind = "IoError" -> DataMalformat(err.msg)
      [] err.kind = "MigrationError" -> err.inner[1]
      [] err.kind = "ResultError" -> QueryFail(err.msg)
      [] OTHER -> Internal(<<"url parse failed">>)

\* impl TryFrom<crate::Error> for MigrationError (always Err)
MigrationErrorFrom(err) ==
    CASE err.kind = "HttpError" -> TransactionFail(err.status, err.msg)
      [] err.kind = "IoError" -> DataMalformat(err.msg)
      [] err.kind = "MigrationError" -> err.inner[1]
      [] err.kind = "ResultError" -> QueryFail(err.msg)
      [] OTHER -> Internal(<<"url parse failed">>)

Ok(v) == [tag |-> "Ok", val |-> v]
Err(e) == [tag |-> "Err", val |-> e]
IsOk(r) == r.tag = "Ok"
IsErr(r) == r.tag = "Err"

\* ------------------------------------------------------- migration engine
\* the inner loop of migrate_to and rollback_to: every line of the script
\* that is not empty and no comment is appended as one statement
RECURSIVE push_lines(_, _)
push_lines(query, lines) ==
    IF lines = <<>> THEN query
    ELSE LET line == Trim(Head(lines))
         IN push_lines(IF IsStatementLine(line)
                       THEN push_sql(query, ValString(line))
                       ELSE query,
                       Tail(lines))

\* one iteration of the loop of migrate_to, for the unit at index i (from 1);
\* st is [version, query]; the loop ends at the break or after the last unit
\* mutants of migrate_step: a unit at the version read is skipped; every
\* unit is run whatever the version read
migrate_step_mut_lt(st, upgrade, db_version) ==
    [version |-> st.version + 1,
     query |-> IF db_version < st.version
               THEN push_lines(st.query, SqlLines(upgrade))
               ELSE st.query]

migrate_step_mut_always(st, upgrade, db_version) ==
    [version |-> st.version + 1,
     query |-> push_lines(st.query, SqlLines(upgrade))]

\* mutant of migrate_step: the unit below the version read is run as well
migrate_step_mut_prev(st, upgrade, db_version) ==
    [version |-> st.version + 1,
     query |-> IF db_version <= st.version + 1
               THEN push_lines(st.query, SqlLines(upgrade))
               ELSE st.query]

migrate_step(st, upgrade, db_version) ==
    [version |-> st.version + 1,
     query |-> IF db_version <= st.version
               THEN push_lines(st.query, SqlLines(upgrade))
               ELSE st.query]

\* mutant of migrate_loop: the walk stops at the unit of the target
RECURSIVE migrate_loop_mut_ge(_, _, _, _, _)
migrate_loop_mut_ge(migs, i, db_version, to_version, st) ==
    IF i > Len(migs) THEN st
    ELSE IF to_version # None /\ st.version >= to_version[1] THEN st
    ELSE migrate_loop_mut_ge(migs, i + 1, db_version, to_version,
                             migrate_step(st, migs[i].up, db_version))

\* the loop of migrate_to over the units, from index i (from 1)
RECURSIVE migrate_loop(_, _, _, _, _)
migrate_loop(migs, i, db_version, to_version, st) ==
    IF i > Len(migs) THEN st
    ELSE IF to_version # None /\ st.version > to_version[1] THEN st
    ELSE migrate_loop(migs, i + 1, db_version, to_version,
                      migrate_step(st, migs[i].up, db_version))

\* mutants of migrate_to_plan: the version is not clamped to the version
\* read; the target is not checked against the list
migrate_to_plan_mut_noclamp(migs, db_version, to_version) ==
    LET start == [version |-> 0,
                  query |-> enable_transaction_helper(ConnectionExecute)]
        walked == migrate_loop(migs, 1, db_version, to_version, start)
    IN IF to_version = None THEN Ok(walked)
       ELSE LET version == unwrap_or_default(checked_sub(walked.version, 1))
            IN IF version # to_version[1]
               THEN Err(DataMalformat(<<"no migration ", Display(to_version[1])>>))
               ELSE Ok([walked EXCEPT !.version = version])

migrate_to_plan_mut_nocheck(migs, db_version, to_version) ==
    LET start == [version |-> 0,
                  query |-> enable_transaction_helper(ConnectionExecute)]
        walked == migrate_loop(migs, 1, db_version, to_version, start)
    IN IF to_version = None THEN Ok(walked)
       ELSE LET version == unwrap_or_default(checked_sub(walked.version, 1))
            IN Ok([walked EXCEPT !.version =
                      IF version < db_version THEN db_version ELSE version])

\* migrate_to from the version read up to the call of
\* run_n_set_pragma_user_version: Err(error) or Ok([version, query])
migrate_to_plan(migs, db_version, to_version) ==
    LET start == [version |-> 0,
                  query |-> enable_transaction_helper(ConnectionExecute)]
        walked == migrate_loop(migs, 1, db_version, to_version, start)
    IN IF to_version = None THEN Ok(walked)
       ELSE LET version == unwrap_or_default(checked_sub(walked.version, 1))
            IN IF version # to_version[1]
               THEN Err(DataMalformat(<<"no migration ", Display(to_version[1])>>))
               ELSE Ok([walked EXCEPT !.version =
                           IF version < db_version THEN db_version ELSE version])

\* mutant of rollback_step: a unit is undone at the target version too
rollback_step_mut_ge(st, downgrade, to_version) ==
    IF downgrade # None
    THEN IF st.version >= to_version
         THEN [version |-> unwrap_or_default(checked_sub(st.version, 1)),
               query |-> push_lines(st.query, SqlLines(downgrade[1]))]
         ELSE st
    ELSE [st EXCEPT !.version = unwrap_or_default(checked_sub(st.version, 1))]

\* one iteration of the loop of rollback_to over the reversed list
rollback_step(st, downgrade, to_version) ==
    IF downgrade # None
    THEN IF st.version > to_version
         THEN [version |-> unwrap_or_default(checked_sub(st.version, 1)),
               query |-> push_lines(st.query, SqlLines(downgrade[1]))]
         ELSE st
    ELSE [st EXCEPT !.version = unwrap_or_default(checked_sub(st.version, 1))]

\* mutant of rollback_loop: the list is walked first unit first
RECURSIVE rollback_loop_mut_fwd(_, _, _, _)
rollback_loop_mut_fwd(migs, i, to_version, st) ==
    IF i < 1 THEN st
    ELSE rollback_loop_mut_fwd(migs, i - 1, to_version,
                               rollback_step(st, migs[Len(migs) + 1 - i].down,
                                             to_version))

\* the loop of rollback_to over migrations.iter().rev(), from index i (from 1)
\* down to the first unit
RECURSIVE rollback_loop(_, _, _, _)
rollback_loop(migs, i, to_version, st) ==
    IF i < 1 THEN st
    ELSE rollback_loop(migs, i - 1, to_version,
                       rollback_step(st, migs[i].down, to_version))

\* mutant of rollback_to_plan: the version read is accepted as a target
rollback_to_plan_mut_gt(migs, db_version, to_version) ==
    IF to_version > db_version
    THEN Err(DataMalformat(<<"no rollback ", Display(to_version)>>))
    ELSE Ok(rollback_loop(migs, Len(migs), to_version,
                          [version |-> db_version,
                           query |-> enable_transaction_helper(ConnectionExecute)]))

\* rollback_to from the version read up to the call of
\* run_n_set_pragma_user_version
rollback_to_plan(migs, db_version, to_version) ==
    IF to_version >= db_version
    THEN Err(DataMalformat(<<"no rollback ", Display(to_version)>>))
    ELSE Ok(rollback_loop(migs, Len(migs), to_version,
                          [version |-> db_version,
                           query |-> enable_transaction_helper(ConnectionExecute)]))

\* the statement run_n_set_pragma_user_version appends
PragmaSet(version) == <<"PRAGMA user_version=", Display(version)>>
\* the statement pragma_user_version sends
PragmaGet == <<"PRAGMA user_version">>

write_query(query, version) == push_sql_str(query, PragmaSet(version))
read_query == push_sql_str(ConnectionQuery, PragmaGet)

\* ------------------------------------------------------------- responses
\* response::mapping::Mapping
MapStandard(values) == [kind |-> "Standard", values |-> values, error |-> <<>>]
MapError(error) == [kind |-> "Error", values |-> None, error |-> error]
MapExecute == [kind |-> "Execute", values |-> None, error |-> <<>>]
MapAssociative == [kind |-> "Associative", values |-> None, error |-> <<>>]

\* Standard::value(0, 0)
value00(standard) ==
    IF standard.values # None /\ Len(standard.values[1]) >= 1
       /\ Len(standard.values[1][1]) >= 1
    THEN Some(standard.values[1][1][1])
    ELSE None

\* the loop of pragma_user_version over the results, from index i (from 1):
\* Ok(version), Err(error), or "panic" for an index outside query.sql()
RECURSIVE pragma_results(_, _, _)
pragma_results(results, i, query) ==
    IF i > Len(results) THEN Err(QueryFail(<<"no schema version">>))
    ELSE LET result == results[i]
         IN CASE result.kind = "Error" ->
                   IF i > Len(query.sql) THEN [tag |-> "Panic", val |-> <<>>]
                   ELSE Err(QueryFail(<<result.error, " - ", query.sql[i]>>))
              [] result.kind = "Standard" ->
                   LET v == value00(result)
                       db_version == IF v = None THEN None ELSE as_u64(v[1])
                   IN IF db_version # None THEN Ok(db_version[1])
                      ELSE pragma_results(results, i + 1, query)
              [] OTHER -> Err(QueryFail(<<"result not handled">>))

\* pragma_user_version on what the executor returned for the read
pragma_user_version(response, query) ==
    IF IsErr(response) THEN Err(MigrationErrorFrom(response.val))
    ELSE pragma_results(response.val, 1, query)

\* mutant of check_results: the last error of the results is reported
RECURSIVE check_results_mut_last(_, _, _)
check_results_mut_last(results, i, query) ==
    IF i > Len(results) THEN Ok(<<>>)
    ELSE LET rest == check_results_mut_last(results, i + 1, query)
         IN IF IsErr(rest) THEN rest
            ELSE IF results[i].kind = "Error"
            THEN Err(QueryFail(<<results[i].error, " - ", query.sql[i]>>))
            ELSE rest

\* the error check of run_n_set_pragma_user_version, from index i (from 1)
RECURSIVE check_results(_, _, _)
check_results(results, i, query) ==
    IF i > Len(results) THEN Ok(<<>>)
    ELSE IF results[i].kind = "Error"
         THEN IF i > Len(query.sql) THEN [tag |-> "Panic", val |-> <<>>]
              ELSE Err(QueryFail(<<results[i].error, " - ", query.sql[i]>>))
         ELSE check_results(results, i + 1, query)

\* run_n_set_pragma_user_version after the push, on the executor's answer
run_n_set_pragma_user_version(response, query) ==
    IF IsErr(response) THEN Err(MigrationErrorFrom(response.val))
    ELSE check_results(response.val, 1, query)

\* ------------------------------------------------------- remote database
\* The database holds the persisted version and the tables the scripts
\* create.  A statement is a one-element array holding its text.
StatementText(stmt) == stmt.a[1].s

\* the effect of one statement on [version, tables, redo]; redo collects the
\* tables created again while they exist
db_statement(db, stmt) ==
    LET line == StatementText(stmt)
    IN CASE line[1] = "C" ->
              [db EXCEPT !.tables = @ \cup {line[2]},
                         !.redo = IF line[2] \in db.tables
                                  THEN @ \cup {line[2]} ELSE @]
         [] line[1] = "D" -> [db EXCEPT !.tables = @ \ {line[2]}]
         [] line[1] = "PRAGMA user_version=" ->
              [db EXCEPT !.version =
                  CHOOSE v \in 0..MAX : Display(v) = line[2]]
         [] OTHER -> db

RECURSIVE db_execute(_, _, _)
db_execute(db, sql, i) ==
    IF i > Len(sql) THEN db
    ELSE db_execute(db_statement(db, sql[i]), sql, i + 1)

\* what an executor may return instead of a response
RunErrors ==
    { CrateErr("HttpError", 500, <<"fail">>, None),
      CrateErr("ResultError", 0, <<"fail">>, None),
      CrateErr("MigrationError", 0, <<>>,
               Some(QueryFail(<<"query not implemented">>))) }

\* the result mappings an answer to the version read is made of
ReadMappings(version) ==
    { MapStandard(Some(<< <<ValNumber(version)>> >>)),
      MapStandard(Some(<< <<ValString(<<"x">>)>> >>)),
      MapStandard(Some(<<>>)),
      MapError(<<"fail">>),
      MapExecute }

\* the longest answer to the version read
MaxResults == 2

ReadResponses(version) ==
    { Err(e) : e \in RunErrors }
    \cup { Ok(r) : r \in UNION { [1..k -> ReadMappings(version)] : k \in 0..MaxResults } }

\* the answer to a write batch: every statement executed (k = 0), or the
\* statements before statement k executed and statement k failed
WriteResults(sql, k) ==
    IF k = 0 THEN [i \in 1..Len(sql) |-> MapExecute]
    ELSE [i \in 1..k |-> IF i < k THEN MapExecute ELSE MapError(<<"fail">>)]

\* the answer of an executor that goes on after statement k failed: the
\* statements after it fail too, with another error
WriteResultsLate(sql, k) ==
    [i \in 1..Len(sql) |-> IF i < k THEN MapExecute
                           ELSE IF i = k THEN MapError(<<"fail">>)
                           ELSE MapError(<<"late">>)]

WriteResponses(sql) ==
    { Err(e) : e \in RunErrors }
    \cup { Ok(WriteResults(sql, k)) : k \in 0..Len(sql) }
    \cup { Ok(WriteResultsLate(sql, k)) : k \in 1..(Len(sql) - 1) }

\* An executor set up for a test answers every version read alike: with
\* an error, or with results of these kinds, holding the persisted version
\* where a number is returned.
ReadShapes == {"number", "text", "empty", "error", "execute"}

ShapeMapping(shape, version) ==
    CASE shape = "number" -> MapStandard(Some(<< <<ValNumber(version)>> >>))
      [] shape = "text" -> MapStandard(Some(<< <<ValString(<<"x">>)>> >>))
      [] shape = "empty" -> MapStandard(Some(<<>>))
      [] shape = "error" -> MapError(<<"fail">>)
      [] OTHER -> MapExecute

ReadAnswer(answer, version) ==
    IF IsErr(answer) THEN answer
    ELSE Ok([i \in 1..Len(answer.val) |-> ShapeMapping(answer.val[i], version)])

ReadAnswerShapes ==
    { Err(e) : e \in RunErrors }
    \cup { Ok(r) : r \in UNION { [1..k -> ReadShapes] : k \in 0..MaxResults } }

HasError(results) == \E i \in 1..Len(results) : results[i].kind = "Error"

\* ---------------------------------------------------------- migration list
TableName(i) == ToString(i)

\* the upgrade and downgrade script texts of the unit at position i (from 0)
UpgradeSrc(i) ==
    LET n == TableName(i)
    IN CASE i % 3 = 0 -> <<"C", n, NL, "-", "-", "x", NL, SP, "I", n, SP, NL>>
         [] i % 3 = 1 -> <<"C", BS, NL, SP, "#", "x", BS, NL, SP, n, NL>>
         [] OTHER -> <<"C", n>>

DowngradeSrc(i) ==
    LET n == TableName(i)
    IN IF i % 2 = 0 THEN <<";", "x", NL, "D", n>> ELSE <<"D", n, NL>>

\* M(upgrade, downgrade)
M(upgrade, downgrade) == [up |-> upgrade, down |-> downgrade]

MigrationLists ==
    UNION { { [i \in 1..n |->
                 M(SqlFrom(UpgradeSrc(i - 1)),
                   IF with[i] THEN Some(SqlFrom(DowngradeSrc(i - 1))) ELSE None)]
              : with \in [1..n -> BOOLEAN] }
            : n \in 0..MaxUnits }

\* ------------------------------------------------------------------ state
VARIABLES
    migrations,       \* Migration::migrations
    request_builder,  \* Migration::request_builder is Some
    user_version,     \* the version the database persists
    tables,           \* the tables that exist in the database
    call,             \* per caller: the migrate / rollback call in progress
    builder,          \* a Query under construction and the last call on it
    parsed,           \* a script text and the Sql value constructed from it
    scan,             \* a migration directory and the units loaded from it
    executor          \* the answer the executor is set up to give to a read

vars == <<migrations, request_builder, user_version, tables, call, builder,
          parsed, scan, executor>>

Callers == {1, 2}

Targets == 0..(MaxUnits + 1) \cup {MAX}

Calls ==
    { [op |-> "migrate", to |-> None] }
    \cup { [op |-> o, to |-> Some(t)] : o \in {"migrate_to", "rollback_to"}, t \in Targets }

IdleCall ==
    [pc |-> "idle", op |-> "none", to_version |-> None, db_version |-> None,
     version |-> 0, query |-> QueryNew, result |-> None, requests |-> <<>>,
     redo |-> {}, prev |-> None, response |-> None, failed |-> None,
     read_error |-> None]

\* what the call just returned, when it returned Ok: the call the next one
\* follows
Returned(c) ==
    IF c.pc = "done" /\ IsOk(c.result[1])
    THEN Some([op |-> c.op, to_version |-> c.to_version,
               db_version |-> c.db_version, version |-> c.result[1].val])
    ELSE None

\* what the call just returned, when it is a migrate() whose write batch
\* failed: the call a retry follows
Failed(c) ==
    IF c.pc = "done" /\ c.op = "migrate" /\ c.response # None /\ ~IsOk(c.result[1])
    THEN Some([db_version |-> c.db_version[1], sql |-> c.query.sql])
    ELSE None

\* Longest chain of calls on one Query.
MaxOps == 4

\* a query as a Connection hands it out, no call made on it yet;
\* freshness_set is the freshness the caller set last
NewBuilder(q) ==
    [query |-> q, op |-> "new", arg |-> None, steps |-> 0, freshness_set |-> None]

\* a script text no Sql value was constructed from yet
NewParsed(text) == [source |-> text, sql |-> None, steps |-> 0]

\* a directory that was not scanned yet: its entries, by name, and the order
\* the operating system enumerates them in
NewScan(dir_entries, read_dir) ==
    [entries |-> dir_entries, order |-> read_dir, units |-> None]

Init ==
    /\ builder = NewBuilder(ConnectionQuery)
    /\ parsed = NewParsed(<<>>)
    /\ scan = NewScan(<<>>, <<>>)
    /\ executor = None
    /\ migrations \in MigrationLists
    /\ request_builder \in BOOLEAN
    /\ user_version \in 0..(MaxUnits + 1)
    /\ tables = { TableName(i) : i \in 0..(user_version - 1) }
    /\ call = [p \in Callers |-> IdleCall]

\* mutant of check_preconditions: the executor is looked at first
check_preconditions_mut_swap(migs, has_request_builder) ==
    IF ~has_request_builder THEN Some(NoRequestBuilder)
    ELSE IF migs = <<>> THEN Some(NoData)
    ELSE None

\* the checks migrate_to and rollback_to start with: the error returned, if
\* any
check_preconditions(migs, has_request_builder) ==
    IF migs = <<>> THEN Some(NoData)
    ELSE IF ~has_request_builder THEN Some(NoRequestBuilder)
    ELSE None

\* migrate, migrate_to, rollback_to: entry and the checks before any request,
\* for a caller that makes one of the calls given
CallOf(p, calls) ==
    /\ call[p].pc \in {"idle", "done"}
    /\ \E c \in calls :
         LET started == [IdleCall EXCEPT !.op = c.op, !.to_version = c.to,
                                         !.prev = Returned(call[p]),
                                         !.failed = Failed(call[p])]
             failed == check_preconditions(migrations, request_builder)
         IN call' = [call EXCEPT ![p] =
                IF failed # None
                THEN [started EXCEPT !.pc = "done", !.result = Some(Err(failed[1]))]
                ELSE [started EXCEPT !.pc = "read"]]
    /\ UNCHANGED <<migrations, request_builder, user_version, tables, builder,
                   parsed, scan, executor>>

Call(p) == CallOf(p, Calls)

\* the plan of the call in progress, once the version is read
Plan(c, db_version) ==
    IF c.op = "rollback_to"
    THEN rollback_to_plan(migrations, db_version, c.to_version[1])
    ELSE migrate_to_plan(migrations, db_version, c.to_version)

\* what the executor may return for the version read: anything, or the
\* answer it is set up to give
ReadAnswers ==
    IF executor = None THEN ReadResponses(user_version)
    ELSE { ReadAnswer(executor[1], user_version) }

\* pragma_user_version and the code up to the write request
ReadVersion(p) ==
    /\ call[p].pc = "read"
    /\ \E answer \in { [version |-> pragma_user_version(response, read_query),
                          error |-> IF IsErr(response) THEN Some(response.val)
                                    ELSE None] :
                           response \in ReadAnswers } :
         LET read == answer.version
             c == [call[p] EXCEPT !.requests = Append(@, read_query.endpoint),
                                  !.read_error = answer.error]
         IN call' = [call EXCEPT ![p] =
                IF ~IsOk(read)
                THEN [c EXCEPT !.pc = "done", !.result = Some(read)]
                ELSE LET plan == Plan(c, read.val)
                         d == [c EXCEPT !.db_version = Some(read.val)]
                     IN IF IsErr(plan)
                        THEN [d EXCEPT !.pc = "done", !.result = Some(plan)]
                        ELSE [d EXCEPT !.pc = "write",
                                       !.version = plan.val.version,
                                       !.query = write_query(plan.val.query,
                                                             plan.val.version)]]
    /\ UNCHANGED <<migrations, request_builder, user_version, tables, builder,
                   parsed, scan, executor>>

\* run_n_set_pragma_user_version: the write request, the database's
\* transaction and the check of the results
WriteBatch(p) ==
    /\ call[p].pc = "write"
    /\ \E response \in WriteResponses(call[p].query.sql) :
         LET c == call[p]
             checked == run_n_set_pragma_user_version(response, c.query)
             commit == IsOk(response) /\ ~HasError(response.val)
             db == db_execute([version |-> user_version, tables |-> tables,
                               redo |-> {}], c.query.sql, 1)
         IN /\ call' = [call EXCEPT ![p] =
                  [c EXCEPT !.pc = "done",
                            !.requests = Append(@, c.query.endpoint),
                            !.redo = IF commit THEN db.redo ELSE {},
                            !.response = Some(response),
                            !.result = Some(IF IsOk(checked) THEN Ok(c.version)
                                            ELSE checked)]]
            /\ user_version' = IF commit THEN db.version ELSE user_version
            /\ tables' = IF commit THEN db.tables ELSE tables
    /\ UNCHANGED <<migrations, request_builder, builder, parsed, scan, executor>>

\* one caller at a time
Next == \E p \in {1} : Call(p) \/ ReadVersion(p) \/ WriteBatch(p)

Spec == Init /\ [][Next]_vars

\* a database nothing was ever written to
InitFresh == Init /\ user_version = 0

SpecFresh == InitFresh /\ [][Next]_vars

\* two callers, each with its own Migration of the same list, that call
\* migrate() on the same database: the engine takes no lock and the steps
\* of the two calls interleave in any order
Migrate(p) == CallOf(p, { [op |-> "migrate", to |-> None] })

NextTwo == \E p \in Callers : Migrate(p) \/ ReadVersion(p) \/ WriteBatch(p)

InitTwo == Init /\ request_builder = TRUE

SpecTwo == InitTwo /\ [][NextTwo]_vars

\* an executor set up with the answer it gives to a read, and bound
InitRead ==
    /\ builder = NewBuilder(ConnectionQuery)
    /\ parsed = NewParsed(<<>>)
    /\ scan = NewScan(<<>>, <<>>)
    /\ executor \in { Some(answer) : answer \in ReadAnswerShapes }
    /\ migrations \in MigrationLists
    /\ request_builder = TRUE
    /\ user_version \in 0..(MaxUnits + 1)
    /\ tables = { TableName(i) : i \in 0..(user_version - 1) }
    /\ call = [p \in Callers |-> IdleCall]

SpecRead == InitRead /\ [][Next]_vars

\* ---------------------------------------------------------- query builder
\* what the builder's callers pass
Durations == 1..MaxSecs
SqlValues ==
    { ValString(<<"S">>), ValArray(<<ValString(<<"S", "?">>), ValNumber(1)>>) }
SqlTexts == { <<"T">> }
SqlSlices == { <<ValString(<<"U", "?">>), ValNumber(2)>> }
SqlTextSlices == { <<ValString(<<"V">>), ValString(<<"W">>)>> }

LevelOf(q) == q.consistency_level[1]

\* one call on the query: q is what it returns
Chain(name, arg, q) ==
    /\ builder.steps < MaxOps
    /\ builder' = [builder EXCEPT !.query = q, !.op = name, !.arg = arg,
                                  !.steps = @ + 1]
    /\ UNCHANGED <<migrations, request_builder, user_version, tables, call,
                   parsed, scan, executor>>

DisableRedirect == Chain("disable_redirect", None, disable_redirect(builder.query))
SetAssociative == Chain("set_associative", None, set_associative(builder.query))
SetPretty == Chain("set_pretty", None, set_pretty(builder.query))
SetTiming == Chain("set_timing", None, set_timing(builder.query))

SetTimeout ==
    \E t \in Durations : Chain("set_timeout", Some(t), set_timeout(builder.query, t))

SetTimeoutRequest ==
    \E t \in Durations :
        Chain("set_timeout_request", Some(t), set_timeout_request(builder.query, t))

SetNone ==
    /\ LevelOf(builder.query) \in {"Nolevel", "Weak", "Strong"}
    /\ Chain("set_none", None, set_none(builder.query))

SetWeak ==
    /\ LevelOf(builder.query) \in {"Nolevel", "None", "Strong"}
    /\ Chain("set_weak", None, set_weak(builder.query))

SetStrong ==
    /\ LevelOf(builder.query) \in {"Nolevel", "None", "Weak"}
    /\ Chain("set_strong", None, set_strong(builder.query))

SetFreshness ==
    /\ builder.query.state \in {"LevelNone", "LevelNoneMulti"}
    /\ builder.steps < MaxOps
    /\ \E f \in Durations :
         builder' = [builder EXCEPT !.query = set_freshness_helper(@, f),
                                    !.op = "set_freshness", !.arg = Some(f),
                                    !.steps = @ + 1, !.freshness_set = Some(f)]
    /\ UNCHANGED <<migrations, request_builder, user_version, tables, call,
                   parsed, scan, executor>>

PushSql ==
    \E v \in SqlValues : Chain("push_sql", Some(v), push_sql(builder.query, v))

PushSqlStr ==
    \E t \in SqlTexts :
        Chain("push_sql_str", Some(ValString(t)), push_sql_str(builder.query, t))

PushSqlStrSlice ==
    \E v \in SqlTextSlices :
        Chain("push_sql_str_slice", Some(ValArray(v)),
              push_sql(builder.query, ValArray(v)))

PushSqlValues ==
    \E v \in SqlSlices :
        Chain("push_sql_values", Some(ValArray(v)), push_sql_values(builder.query, v))

\* set_sql, set_sql_str, set_sql_str_slice, set_sql_values: single-statement
\* states only; the panic of set_sql_helper ends the chain
SetSql ==
    /\ builder.query.state \in SingleStates
    /\ \E v \in SqlValues \cup { ValString(t) : t \in SqlTexts }
                \cup { ValArray(v) : v \in SqlSlices \cup SqlTextSlices } :
         LET set == set_sql_helper(builder.query, v)
         IN /\ set.tag = "Ok"
            /\ Chain("set_sql", Some(v), set.val)

EnableTransaction ==
    /\ builder.query.state \in MultiStates
    /\ Chain("enable_transaction", None, enable_transaction_helper(builder.query))

SwitchMulti ==
    /\ builder.query.state = "NoLevel"
    /\ Chain("switch_multi", None, switch_multi(builder.query))

SetQueue ==
    /\ builder.query.state = "NoLevelMulti"
    /\ Chain("set_queue", None, set_queue(builder.query))

SetWait ==
    /\ builder.query.state = "NoLevelMulti"
    /\ Chain("set_wait", None, set_wait(builder.query))

\* reading the URL fills the cache
ReadUrl == Chain("to_string", None, create_url(builder.query))

NextQuery ==
    \/ DisableRedirect \/ SetAssociative \/ SetPretty \/ SetTiming
    \/ SetTimeout \/ SetTimeoutRequest
    \/ SetNone \/ SetWeak \/ SetStrong \/ SetFreshness
    \/ PushSql \/ PushSqlStr \/ PushSqlStrSlice \/ PushSqlValues \/ SetSql
    \/ EnableTransaction \/ SwitchMulti \/ SetQueue \/ SetWait
    \/ ReadUrl

\* the queries a Connection hands out, with no migration in progress
InitQuery ==
    /\ builder \in { NewBuilder(q) :
                       q \in {ConnectionQuery, ConnectionExecute, ConnectionRequest} }
    /\ migrations = <<>>
    /\ request_builder = FALSE
    /\ user_version = 0
    /\ tables = {}
    /\ call = [p \in Callers |-> IdleCall]
    /\ parsed = NewParsed(<<>>)
    /\ scan = NewScan(<<>>, <<>>)
    /\ executor = None

SpecQuery == InitQuery /\ [][NextQuery]_vars

\* -------------------------------------------------------------- Sql values
\* Longest script text a Sql value is constructed from.
MaxLen == 7

\* the characters of a script text: a letter, a blank, a line feed, a
\* backslash and a comment character
Alphabet == {"a", SP, NL, BS, "#"}

Texts == UNION { [1..n -> Alphabet] : n \in 0..MaxLen }

\* Sql::from(source)
SqlFromStr ==
    /\ parsed.steps = 0
    /\ parsed' = [parsed EXCEPT !.sql = Some(SqlFrom(parsed.source)), !.steps = 1]
    /\ UNCHANGED <<migrations, request_builder, user_version, tables, call,
                   builder, scan, executor>>

\* Sql::from(sql.as_str()): a Sql value constructed from the text of another
SqlFromSql ==
    /\ parsed.steps = 1
    /\ parsed' = [parsed EXCEPT !.sql = Some(SqlFrom(as_str(parsed.sql[1]))),
                                !.steps = 2]
    /\ UNCHANGED <<migrations, request_builder, user_version, tables, call,
                   builder, scan, executor>>

NextSql == SqlFromStr \/ SqlFromSql

InitSql ==
    /\ parsed \in { NewParsed(text) : text \in Texts }
    /\ builder = NewBuilder(ConnectionQuery)
    /\ migrations = <<>>
    /\ request_builder = FALSE
    /\ user_version = 0
    /\ tables = {}
    /\ call = [p \in Callers |-> IdleCall]
    /\ scan = NewScan(<<>>, <<>>)
    /\ executor = None

SpecSql == InitSql /\ [][NextSql]_vars

\* ---------------------------------------------------- migration directory
\* Largest number of entries of a migration directory.
MaxDirs == 3

\* the names of directory entries, as sequences of character codes: a name
\* that is a prefix of another one, and names of different lengths
EntryNames == { <<1>>, <<1, 1>>, <<1, 2>>, <<2>> }

\* what is found under a name: a plain file, or a sub-directory in which
\* upgrade.sql and downgrade.sql each are absent, a file that reads as text,
\* or a file that does not (no permission, no UTF-8)
FileStates == {"absent", "text", "unreadable"}

EntryStates ==
    { [is_dir |-> FALSE, upgrade |-> "absent", downgrade |-> "absent"] }
    \cup { [is_dir |-> TRUE, upgrade |-> u, downgrade |-> d] :
             u \in FileStates, d \in FileStates }

\* the sequences that hold every element of a set once: the orders
\* fs::read_dir may enumerate the entries in
RECURSIVE Orders(_)
Orders(set) ==
    IF set = {} THEN { <<>> }
    ELSE UNION { { <<x>> \o rest : rest \in Orders(set \ {x}) } : x \in set }

\* the text of upgrade.sql and of downgrade.sql in the sub-directory name
FileText(name, file) ==
    <<SP, file>> \o [i \in 1..Len(name) |-> ToString(name[i])] \o <<SP, NL>>

\* Ord for the name of a path component: bytewise, a prefix first
RECURSIVE NameLess(_, _)
NameLess(x, y) ==
    IF y = <<>> THEN FALSE
    ELSE IF x = <<>> THEN TRUE
    ELSE IF Head(x) # Head(y) THEN Head(x) < Head(y)
    ELSE NameLess(Tail(x), Tail(y))

\* Ord for (PathBuf, Option<PathBuf>) of two sub-directories of one
\* directory: the upgrade paths first, None before Some
EntryLess(x, y) ==
    \/ NameLess(x.dir, y.dir)
    \/ x.dir = y.dir /\ ~x.downgrade /\ y.downgrade

RECURSIVE SortUnstable(_)
SortUnstable(v) ==
    IF v = <<>> THEN <<>>
    ELSE LET least == CHOOSE i \in 1..Len(v) :
                          \A j \in 1..Len(v) : ~EntryLess(v[j], v[i])
         IN <<v[least]>>
              \o SortUnstable(SubSeq(v, 1, least - 1) \o SubSeq(v, least + 1, Len(v)))

\* Migration::migration_files: the sub-directories with a file upgrade.sql,
\* each with whether it has a file downgrade.sql, sorted
migration_files(dir_entries, read_dir) ==
    LET found == SelectSeq(read_dir,
                     LAMBDA name : /\ dir_entries[name].is_dir
                                   /\ dir_entries[name].upgrade # "absent")
    IN SortUnstable([i \in 1..Len(found) |->
              [dir |-> found[i],
               downgrade |-> dir_entries[found[i]].downgrade # "absent"]])

\* impl TryFrom<&Path> for Sql
SqlTryFromPath(state, text) ==
    IF state = "text"
    THEN Ok([sql_str |-> None, sql_string |-> Some(parse_str(text))])
    ELSE Err(NoData)

\* Result::ok
ok(result) == IF IsOk(result) THEN Some(result.val) ELSE None

\* Migration::migrations for the files found
RECURSIVE LoadFiles(_, _)
LoadFiles(dir_entries, files) ==
    IF files = <<>> THEN <<>>
    ELSE LET f == Head(files)
             upgrade_sql == SqlTryFromPath(dir_entries[f.dir].upgrade,
                                           FileText(f.dir, "U"))
             downgrade_sql == SqlTryFromPath(dir_entries[f.dir].downgrade,
                                             FileText(f.dir, "D"))
         IN (IF IsOk(upgrade_sql)
             THEN << M(upgrade_sql.val,
                       IF f.downgrade THEN ok(downgrade_sql) ELSE None) >>
             ELSE <<>>)
            \o LoadFiles(dir_entries, Tail(files))

\* Migration::migrations
LoadMigrations(dir_entries, read_dir) ==
    LoadFiles(dir_entries, migration_files(dir_entries, read_dir))

\* Migration::from_path on the directory
FromPath ==
    /\ scan.units = None
    /\ scan' = [scan EXCEPT !.units = Some(LoadMigrations(scan.entries, scan.order))]
    /\ UNCHANGED <<migrations, request_builder, user_version, tables, call,
                   builder, parsed, executor>>

NextScan == FromPath

Directories ==
    UNION { [names -> EntryStates] :
              names \in { n \in SUBSET EntryNames : Cardinality(n) <= MaxDirs } }

InitScan ==
    /\ scan \in UNION { { NewScan(d, o) : o \in Orders(DOMAIN d) } : d \in Directories }
    /\ executor = None
    /\ parsed = NewParsed(<<>>)
    /\ builder = NewBuilder(ConnectionQuery)
    /\ migrations = <<>>
    /\ request_builder = FALSE
    /\ user_version = 0
    /\ tables = {}
    /\ call = [p \in Callers |-> IdleCall]

SpecScan == InitScan /\ [][NextScan]_vars

\* ----------------------------------------------------------------- claims
\* What the scripts of the list say, written out by hand: the statements of
\* the unit at position i (from 0).
Stmt(line) == ValArray(<<ValString(line)>>)

UpStatements(i) ==
    IF i % 3 = 0
    THEN <<Stmt(<<"C", TableName(i)>>), Stmt(<<"I", TableName(i)>>)>>
    ELSE <<Stmt(<<"C", TableName(i)>>)>>

DownStatements(i) == <<Stmt(<<"D", TableName(i)>>)>>

\* the upgrade statements of positions a, a+1, .., b
RECURSIVE UpRange(_, _)
UpRange(a, b) == IF a > b THEN <<>> ELSE UpStatements(a) \o UpRange(a + 1, b)

\* the downgrade statements of positions a, a-1, .., b
RECURSIVE DownRange(_, _)
DownRange(a, b) == IF a < b THEN <<>> ELSE DownStatements(a) \o DownRange(a - 1, b)

NUnits == Len(migrations)
AllHaveDowngrade == \A i \in 1..NUnits : migrations[i].down # None
Succeeded(c) == c.pc = "done" /\ IsOk(c.result[1])
BatchBody(c) == SubSeq(c.query.sql, 1, Len(c.query.sql) - 1)
BatchLast(c) == c.query.sql[Len(c.query.sql)]
Max(a, b) == IF a > b THEN a ELSE b

\* C1: migrate() on n >= 1 units read at version d <= n submits one batch:
\* the upgrade statements of positions d..n-1 in order, then the statement
\* setting the version to n; when it succeeds it returns n.
C1_MigrateBatch ==
    \A p \in Callers :
        LET c == call[p]
        IN (c.op = "migrate" /\ c.db_version # None /\ c.db_version[1] <= NUnits)
           => /\ c.pc \in {"write", "done"}
              /\ c.query.sql = UpRange(c.db_version[1], NUnits - 1)
                                   \o <<Stmt(PragmaSet(NUnits))>>
              /\ c.pc = "done" => c.requests = <<"Query", "Execute">>
              /\ Succeeded(c) => c.result[1].val = NUnits /\ user_version = NUnits

C1_Witness ==
    \E p \in Callers :
        /\ Succeeded(call[p]) /\ call[p].op = "migrate"
        /\ NUnits = 3 /\ call[p].db_version = Some(0)
        /\ Len(call[p].query.sql) = 5

\* C2: with every unit having a downgrade script and a database that started
\* at version 0, the version counts the applied units, which are the first
\* ones of the list, and no batch runs an upgrade of an applied unit.
C2_VersionCountsApplied ==
    AllHaveDowngrade
    => /\ tables = { TableName(i) : i \in 0..(user_version - 1) }
       /\ \A p \in Callers : call[p].redo = {}

\* C3: a successful migrate() that follows a successful migrate() returns the
\* same version, and its batch holds the version write-back alone.
C3_MigrateTwice ==
    \A p \in Callers :
        LET c == call[p]
        IN (c.op = "migrate" /\ c.prev # None /\ c.prev[1].op = "migrate")
           => /\ c.pc \in {"write", "done"} /\ c.db_version # None
                 => c.query.sql = <<Stmt(PragmaSet(c.prev[1].version))>>
              /\ Succeeded(c) => c.result[1].val = c.prev[1].version

C3_Witness ==
    \E p \in Callers :
        /\ Succeeded(call[p]) /\ call[p].op = "migrate"
        /\ call[p].prev # None /\ call[p].prev[1].op = "migrate"
        /\ NUnits = 2 /\ Len(call[p].query.sql) = 1

\* C4: migrate_to(Some(T)) following a successful migrate_to(Some(T)) that
\* returned T submits no upgrade statement and returns T.
C4_MigrateToTwice ==
    \A p \in Callers :
        LET c == call[p]
        IN (c.op = "migrate_to" /\ c.prev # None /\ c.prev[1].op = "migrate_to"
            /\ c.prev[1].to_version = c.to_version
            /\ c.prev[1].version = c.to_version[1]
            /\ c.db_version = c.to_version)
           => /\ c.pc \in {"write", "done"}
              /\ c.query.sql = <<Stmt(PragmaSet(c.to_version[1]))>>
              /\ Succeeded(c) => c.result[1].val = c.to_version[1]

\* C5: migrate_to(Some(n)) following a successful migrate() that returned n
\* is not rejected: once the version is read it goes on to the write.
C5_FullTargetAccepted ==
    \A p \in Callers :
        LET c == call[p]
        IN (c.op = "migrate_to" /\ c.prev # None /\ c.prev[1].op = "migrate"
            /\ c.prev[1].version = NUnits /\ c.to_version = Some(NUnits)
            /\ c.db_version # None)
           => /\ c.pc \in {"write", "done"}
              /\ c.pc = "done" => c.result[1].val.kind # "DataMalformat"
              /\ Succeeded(c) => c.result[1].val = NUnits

\* C6: migrate_to(Some(T)) with T <= n-1 read at version d writes back
\* max(T, d) and returns it on success; with T < d the batch holds the
\* version write-back alone.
C6_TargetClamped ==
    \A p \in Callers :
        LET c == call[p]
            T == c.to_version[1]
            d == c.db_version[1]
        IN (c.op = "migrate_to" /\ c.db_version # None /\ T <= NUnits - 1)
           => /\ c.pc \in {"write", "done"}
              /\ BatchLast(c) = Stmt(PragmaSet(Max(T, d)))
              /\ T < d => c.query.sql = <<Stmt(PragmaSet(d))>>
              /\ Succeeded(c) => c.result[1].val = Max(T, d)
                                 /\ user_version = Max(T, d)

C6_Witness ==
    \E p \in Callers :
        LET c == call[p]
        IN /\ Succeeded(c) /\ c.op = "migrate_to"
           /\ c.to_version = Some(1) /\ c.db_version = Some(3) /\ NUnits = 3
           /\ user_version = 3

\* C7: no forward call writes back a version below the version it read.
C7_ForwardNeverLowers ==
    \A p \in Callers :
        LET c == call[p]
        IN (c.op \in {"migrate", "migrate_to"} /\ c.pc \in {"write", "done"}
            /\ c.db_version # None /\ Len(c.requests) = IF c.pc = "done" THEN 2 ELSE 1)
           => /\ c.version >= c.db_version[1]
              /\ BatchLast(c) = Stmt(PragmaSet(c.version))

\* C8: migrate_to(Some(T)) with T > n returns DataMalformat naming T once the
\* version is read, sends no write request and leaves the version as read.
C8_TargetBeyondList ==
    \A p \in Callers :
        LET c == call[p]
            T == c.to_version[1]
        IN (c.op = "migrate_to" /\ T > NUnits /\ c.db_version # None)
           => /\ c.pc = "done"
              /\ c.result[1] = Err(DataMalformat(<<"no migration ", Display(T)>>))
              /\ c.requests = <<"Query">>
              /\ user_version = c.db_version[1]

C8_Witness ==
    \E p \in Callers :
        LET c == call[p]
        IN /\ c.op = "migrate_to" /\ c.to_version = Some(MAX) /\ c.pc = "done"
           /\ c.db_version = Some(1) /\ NUnits = 3
           /\ c.result[1].val.kind = "DataMalformat"

\* C9: rollback_to(T) read at version d <= n with T < d submits the downgrade
\* statements of positions d-1, d-2, .., T in that order and of no other unit.
C9_RollbackUnits ==
    \A p \in Callers :
        LET c == call[p]
            T == c.to_version[1]
            d == c.db_version[1]
        IN (c.op = "rollback_to" /\ c.db_version # None /\ AllHaveDowngrade
            /\ d <= NUnits /\ T < d)
           => /\ c.pc \in {"write", "done"}
              /\ BatchBody(c) = DownRange(d - 1, T)

\* C10: with every unit having a downgrade script and T < d <= n,
\* rollback_to(T) submits a batch ending in the statement that sets the
\* version to T, and returns T on success.
C10_RollbackReachesTarget ==
    \A p \in Callers :
        LET c == call[p]
            T == c.to_version[1]
            d == c.db_version[1]
        IN (c.op = "rollback_to" /\ c.db_version # None /\ AllHaveDowngrade
            /\ d <= NUnits /\ T < d)
           => /\ c.pc \in {"write", "done"}
              /\ BatchLast(c) = Stmt(PragmaSet(T))
              /\ Succeeded(c) => c.result[1].val = T /\ user_version = T

C10_Witness ==
    \E p \in Callers :
        LET c == call[p]
        IN /\ Succeeded(c) /\ c.op = "rollback_to" /\ AllHaveDowngrade
           /\ c.to_version = Some(1) /\ c.db_version = Some(3) /\ NUnits = 3
           /\ user_version = 1

\* C11: a rollback_to(T) that read a version d > T never writes back a version
\* below T, and never returns one, whatever units lack a downgrade script.
C11_RollbackNeverBelowTarget ==
    \A p \in Callers :
        LET c == call[p]
            T == c.to_version[1]
        IN (c.op = "rollback_to" /\ c.db_version # None /\ T < c.db_version[1]
            /\ c.pc \in {"write", "done"})
           => /\ c.version >= T
              /\ BatchLast(c) = Stmt(PragmaSet(c.version))
              /\ Succeeded(c) => c.result[1].val >= T /\ user_version >= T

\* C12: rollback_to(T) that read a version d <= T returns DataMalformat
\* naming T, sends no write request and leaves the version as read.
C12_RollbackTargetNotBelow ==
    \A p \in Callers :
        LET c == call[p]
            T == c.to_version[1]
        IN (c.op = "rollback_to" /\ c.db_version # None /\ T >= c.db_version[1])
           => /\ c.pc = "done"
              /\ c.result[1] = Err(DataMalformat(<<"no rollback ", Display(T)>>))
              /\ c.requests = <<"Query">>
              /\ user_version = c.db_version[1]

C12_Witness ==
    \E p \in Callers :
        LET c == call[p]
        IN /\ c.op = "rollback_to" /\ c.to_version = Some(2) /\ c.pc = "done"
           /\ c.db_version = Some(2) /\ NUnits = 3
           /\ c.result[1].val.kind = "DataMalformat"

\* C13: on a database that started at version 0, with n >= 1 units that all
\* have a downgrade script, a rollback_to(0) that follows a successful
\* migrate() read at version 0 submits the downgrade statements of every unit
\* once, last unit first, then the statement setting the version to 0; when
\* it succeeds it returns 0 and the version is 0 again.
C13_MigrateThenRollback ==
    \A p \in Callers :
        LET c == call[p]
        IN (c.op = "rollback_to" /\ c.to_version = Some(0) /\ AllHaveDowngrade
            /\ c.prev # None /\ c.prev[1].op = "migrate"
            /\ c.prev[1].db_version = Some(0) /\ c.db_version # None)
           => /\ c.db_version = Some(NUnits)
              /\ c.pc \in {"write", "done"}
              /\ c.query.sql = DownRange(NUnits - 1, 0) \o <<Stmt(PragmaSet(0))>>
              /\ Succeeded(c) => /\ c.result[1].val = 0
                                 /\ user_version = 0
                                 /\ tables = {}

C13_Witness ==
    \E p \in Callers :
        LET c == call[p]
        IN /\ Succeeded(c) /\ c.op = "rollback_to" /\ c.to_version = Some(0)
           /\ AllHaveDowngrade /\ NUnits = 3
           /\ c.prev # None /\ c.prev[1].op = "migrate"
           /\ c.prev[1].db_version = Some(0)
           /\ Len(c.query.sql) = 4 /\ user_version = 0

C15_OneReadOneWrite ==
    \A p \in Callers :
        LET c == call[p]
        IN /\ c.pc = "read" => c.requests = <<>>
           /\ c.pc = "write"
              => /\ c.requests = <<"Query">>
                 /\ c.query.endpoint = "Execute" /\ c.query.is_transaction
                 /\ c.query.state = "NoLevelMulti"
                 /\ BatchLast(c) = Stmt(PragmaSet(c.version))
           /\ (c.pc = "done" /\ migrations # <<>> /\ request_builder)
              => /\ c.requests \in {<<"Query">>, <<"Query", "Execute">>}
                 /\ c.db_version = None => c.requests = <<"Query">>
                 /\ (IsErr(c.result[1]) /\ c.result[1].val.kind = "DataMalformat")
                    => c.requests = <<"Query">>
                 /\ c.requests = <<"Query", "Execute">>
                    => /\ c.query.endpoint = "Execute" /\ c.query.is_transaction
                       /\ BatchLast(c) = Stmt(PragmaSet(c.version))

C15_Witness ==
    \E p \in Callers :
        LET c == call[p]
        IN /\ c.pc = "done" /\ c.op = "rollback_to"
           /\ c.requests = <<"Query", "Execute">> /\ c.query.is_transaction
           /\ Len(c.query.sql) = 3 /\ IsErr(c.result[1])

\* the indexes of the error mappings among the results
ErrorIndexes(results) == { i \in 1..Len(results) : results[i].kind = "Error" }

\* C16: when the executor answered the write batch, a call whose answer holds
\* an error mapping returned QueryFail made of the error text of the first
\* one and the statement at its index; a call whose answer holds none
\* returned Ok with the version its last statement sets.
C16_FirstErrorReported ==
    \A p \in Callers :
        LET c == call[p]
        IN (c.pc = "done" /\ c.response # None /\ IsOk(c.response[1]))
           => LET results == c.response[1].val
                  errors == ErrorIndexes(results)
              IN IF errors # {}
                 THEN LET first == CHOOSE i \in errors : \A j \in errors : i <= j
                      IN c.result[1] = Err(QueryFail(<<results[first].error, " - ",
                                                      c.query.sql[first]>>))
                 ELSE /\ IsOk(c.result[1])
                      /\ BatchLast(c) = Stmt(PragmaSet(c.result[1].val))

C16_Witness ==
    \E p \in Callers :
        LET c == call[p]
        IN /\ c.pc = "done" /\ c.response # None /\ IsOk(c.response[1])
           /\ ErrorIndexes(c.response[1].val) = {2, 3, 4}
           /\ c.result[1] = Err(QueryFail(<<<<"fail">>, " - ", c.query.sql[2]>>))

\* --------------------------------------------------- claims on the builder
PushOps == {"push_sql", "push_sql_str", "push_sql_str_slice", "push_sql_values"}
LevelOps == {"set_none", "set_weak", "set_strong"}
\* the step is a call of one of the operations ops
Called(ops) == builder'.steps = builder.steps + 1 /\ builder'.op \in ops

\* C17: no call leads from a multi-statement state to a single-statement
\* state, and a push in a single-statement state leads to the multi-statement
\* state of the same level with the statement appended.
C17_MultiplicityMonotone ==
    [][ LET a == builder.query
            b == builder'.query
        IN /\ a.state \in MultiStates => b.state \in MultiStates
           /\ (Called(PushOps) /\ a.state \in SingleStates)
              => /\ b.state = MultiState(a.state)
                 /\ b.state \in MultiStates
                 /\ b.consistency_level = a.consistency_level
                 /\ Len(b.sql) = Len(a.sql) + 1
                 /\ SubSeq(b.sql, 1, Len(a.sql)) = a.sql ]_vars

C17_Witness ==
    /\ builder.op = "push_sql_str" /\ builder.steps = 2
    /\ builder.query.state = "LevelWeakMulti"
    /\ builder.query.consistency_level = Some("Weak")
    /\ Len(builder.query.sql) = 1

\* C18: set_none, set_weak and set_strong change the consistency level and
\* the state type of its multiplicity, and nothing else of the query.
C18_LevelChangeOnly ==
    [][ Called(LevelOps)
        => LET a == builder.query
               b == builder'.query
           IN /\ b = [a EXCEPT !.consistency_level = b.consistency_level,
                               !.state = b.state]
              /\ b.state \in MultiStates <=> a.state \in MultiStates ]_vars

\* the URL a read returns has the argument arg in its query
HasArg(url, arg) ==
    /\ url.query # None
    /\ \E i \in 1..Len(url.query[1]) :
         /\ i + Len(arg) - 1 <= Len(url.query[1])
         /\ SubSeq(url.query[1], i, i + Len(arg) - 1) = arg

\* C19: at level none the URL holds the freshness set last on the query,
\* whatever level changes came after it; at another level it holds none.
C19_FreshnessRetained ==
    LET q == builder.query
    IN /\ (LevelOf(q) = "None" /\ builder.freshness_set # None)
          => HasArg(to_string(q),
                    <<"freshness=">> \o DurationString(builder.freshness_set[1]))
       /\ LevelOf(q) # "None" => ~HasArg(to_string(q), <<"freshness=">>)

\* C20: a push appends one value to the statements and leaves the ones before
\* it as they are; a string is appended as an array of that string alone, an
\* array as it is.
C20_PushAppends ==
    [][ Called(PushOps)
        => LET pushed == builder'.arg[1]
           IN builder'.query.sql =
                  Append(builder.query.sql,
                         IF pushed.t = "String" THEN ValArray(<<pushed>>)
                         ELSE pushed) ]_vars

C20_Witness ==
    /\ builder.op = "push_sql" /\ builder.steps = 3
    /\ builder.query.sql =
           << ValArray(<<ValString(<<"S", "?">>), ValNumber(1)>>),
              ValArray(<<ValString(<<"T">>)>>),
              ValArray(<<ValString(<<"S">>)>>) >>

\* the query string of the URL ends with the statement text as its q argument
EndsWithQ(url, text) ==
    /\ url.query # None
    /\ LET query == url.query[1]
           n == Len(query) - Len(text)
       IN /\ n >= 1
          /\ SubSeq(query, n + 1, Len(query)) = text
          /\ query[n] \in {"q=", "&q="}
          /\ \A i \in 1..(n - 1) : query[i] \notin {"q=", "&q="}

\* C21: set_sql leaves exactly the value given as the statement list,
\* whatever it held before; the URL read next has that value as its q
\* argument when it is a string, and no q argument when it is an array.
C21_SetSqlReplaces ==
    [][ Called({"set_sql"})
        => LET given == builder'.arg[1]
               b == builder'.query
           IN /\ b.sql = <<given>>
              /\ b.state = builder.query.state
              /\ IF given.t = "String"
                 THEN EndsWithQ(to_string(b), given.s)
                 ELSE ~HasArg(to_string(b), <<"q=">>)
                      /\ ~HasArg(to_string(b), <<"&q=">>) ]_vars

C21_Witness ==
    /\ builder.op = "set_sql" /\ builder.steps = 3
    /\ builder.query.sql = <<ValString(<<"T">>)>>
    /\ builder.query.state = "NoLevel"
    /\ builder.query.url_cache # None
    /\ EndsWithQ(builder.query.url_cache[1], <<"S">>)

\* C22: the URL a read returns is the URL computed from the query's fields as
\* they are now, whatever calls and reads came before.
C22_UrlIsCurrent ==
    LET q == builder.query
    IN to_string(q) = to_string([q EXCEPT !.url_cache = None])

\* the names of the URL's arguments in the order they are to appear; the
\* last two both stand for the statement
ParamOrder ==
    <<"associative", "noleader", "nonvoters", "pretty", "queue", "redirect",
      "timing", "transaction", "wait", "timeout=", "level=", "freshness=",
      "q=", "&q=">>

ParamNames == { ParamOrder[k] : k \in 1..Len(ParamOrder) }
\* the place of each name in ParamOrder
ParamRank == [name \in ParamNames |-> CHOOSE k \in 1..Len(ParamOrder) : ParamOrder[k] = name]

\* the tokens of the query string of a URL
Tokens(url) == IF url.query = None THEN <<>> ELSE url.query[1]
IsParamName(token) == token \in ParamNames

FlagOps == {"set_pretty", "set_timing", "set_associative", "disable_redirect"}
FlagParam(op) ==
    CASE op = "set_pretty" -> "pretty"
      [] op = "set_timing" -> "timing"
      [] op = "set_associative" -> "associative"
      [] OTHER -> "redirect"
FlagIsSet(q, op) ==
    CASE op = "set_pretty" -> q.is_pretty
      [] op = "set_timing" -> q.is_timing
      [] op = "set_associative" -> q.is_associative
      [] OTHER -> ~q.is_redirect

\* C24: a flag setter sets its flag; called when the flag is set already it
\* returns the query as it was, with the same URL; after it the URL holds the
\* flag's argument exactly once.
C24_FlagIdempotent ==
    [][ Called(FlagOps)
        => LET a == builder.query
               b == builder'.query
               op == builder'.op
               tokens == Tokens(to_string(b))
           IN /\ FlagIsSet(b, op)
              /\ FlagIsSet(a, op) => (b = a /\ to_string(b) = to_string(a))
              /\ Cardinality({ i \in 1..Len(tokens) : tokens[i] = FlagParam(op) }) = 1
       ]_vars

C24_Witness ==
    /\ builder.op = "set_pretty" /\ builder.steps = 2
    /\ builder.query = set_pretty(ConnectionQuery)
    /\ Tokens(to_string(builder.query)) = <<"pretty">>

\* C25: enable_transaction returns a query of the query endpoint as it was
\* and sets the flag of a query of another endpoint; no query has the flag
\* set on the query endpoint.
C25_TransactionNotOnQuery ==
    [][ /\ Called({"enable_transaction"})
           => LET a == builder.query
                  b == builder'.query
              IN IF a.endpoint = "Query"
                 THEN b = a /\ ~b.is_transaction /\ to_string(b) = to_string(a)
                 ELSE b.is_transaction /\ a.endpoint \in {"Execute", "Request"}
                      /\ HasArg(to_string(b), <<"transaction">>)
        /\ builder.query.is_transaction => builder.query.endpoint # "Query"
        /\ builder'.query.is_transaction => builder'.query.endpoint # "Query"
      ]_vars

C25_Witness ==
    /\ builder.op = "enable_transaction" /\ builder.steps = 3
    /\ builder.query.endpoint = "Query" /\ ~builder.query.is_transaction
    /\ builder.query.state = "LevelWeakMulti"
    /\ ~HasArg(to_string(builder.query), <<"transaction">>)

\* What normalization is said to do, written out by hand for the claims
\* about Sql values.
\* the first character of the line that is not a blank starts a comment
IsCommentLine(raw) ==
    \E i \in 1..Len(raw) :
        /\ raw[i] \in CommentChars
        /\ \A j \in 1..(i - 1) : raw[j] \in Whitespace

IsBlankLine(raw) == \A i \in 1..Len(raw) : raw[i] \in Whitespace

\* the physical line ends with the continuation marker
IsContinued(raw) == raw # <<>> /\ raw[Len(raw)] = BS

\* the physical line without its continuation marker
Unmarked(raw) == IF IsContinued(raw) THEN SubSeq(raw, 1, Len(raw) - 1) ELSE raw

\* the physical line contributes to the normalized text
IsKeptLine(raw) == ~IsCommentLine(raw) /\ ~IsBlankLine(Unmarked(raw))

RECURSIVE JoinLines(_)
JoinLines(ls) ==
    IF ls = <<>> THEN <<>>
    ELSE IF Len(ls) = 1 THEN ls[1]
    ELSE ls[1] \o <<NL>> \o JoinLines(Tail(ls))

RECURSIVE Concat(_)
Concat(ls) == IF ls = <<>> THEN <<>> ELSE Head(ls) \o Concat(Tail(ls))

\* the text given to Sql::from, and the text of the Sql value it returned
SourceLines == Lines(parsed.source)
Normalized == as_str(parsed.sql[1])

\* a statement written over k >= 1 continued lines and a terminating line,
\* which is kept
IsContinuedStatement(ls) ==
    /\ Len(ls) >= 2
    /\ \A i \in 1..(Len(ls) - 1) : IsContinued(ls[i])
    /\ ~IsContinued(ls[Len(ls)])
    /\ IsKeptLine(ls[Len(ls)])

\* C26: after Sql::from, for every text of up to MaxLen characters, no line
\* of the Sql value is empty or has a comment character as its first
\* non-blank character, and the value is the one the text gives once its
\* blank and comment lines are taken out, those between continued lines
\* included.
C26_NoCommentLines ==
    /\ parsed.steps >= 1
       => \A i \in 1..Len(SqlLines(parsed.sql[1])) :
            LET line == SqlLines(parsed.sql[1])[i]
            IN line # <<>> /\ ~IsBlankLine(line) /\ ~IsCommentLine(line)
    /\ parsed.steps = 1
       => LET kept == SelectSeq(SourceLines,
                                LAMBDA raw : ~IsCommentLine(raw) /\ ~IsBlankLine(raw))
          IN Normalized = parse_str(JoinLines(kept))

C26_Witness ==
    /\ parsed.steps = 1
    /\ parsed.source = <<"a", BS, NL, "#", "a", NL, "a">>
    /\ SqlLines(parsed.sql[1]) = << <<"a", "a">> >>

\* C27: after Sql::from, a statement written over k continued lines and a
\* terminating line is one line of the Sql value: the kept pieces, each
\* without its continuation marker and its leading blanks, one after the
\* other. In every text a line break follows the kept lines that are not
\* continued, and no other.
C27_ContinuedLinesJoined ==
    parsed.steps = 1
    => LET ls == SourceLines
           ends == { i \in 1..Len(ls) : ~IsContinued(ls[i]) /\ IsKeptLine(ls[i]) }
           open == { i \in 1..Len(ls) :
                        /\ IsContinued(ls[i]) /\ IsKeptLine(ls[i])
                        /\ \A j \in ends : j < i }
       IN /\ Len(SqlLines(parsed.sql[1]))
                = Cardinality(ends) + (IF open = {} THEN 0 ELSE 1)
          /\ IsContinuedStatement(ls)
             => SqlLines(parsed.sql[1])
                  = << Concat([i \in 1..Len(ls) |->
                                 IF ~IsKeptLine(ls[i]) THEN <<>>
                                 ELSE IF i < Len(ls) THEN TrimStart(Unmarked(ls[i]))
                                 ELSE Trim(ls[i])]) >>

C27_Witness ==
    /\ parsed.steps = 1
    /\ parsed.source = <<"a", BS, NL, "a", BS, NL, "a">>
    /\ IsContinuedStatement(SourceLines)
    /\ Normalized = <<"a", "a", "a">>

\* a text of two kept lines, the first continued into the second
IsJoinedPair(ls) ==
    Len(ls) = 2 /\ IsContinuedStatement(ls) /\ IsKeptLine(ls[1])

\* C28, as stated: when a continued line is joined with the next line, the
\* blanks before the continuation marker and the leading blanks of the next
\* line are not in the joined line.
C28_BlanksAroundMarkerStripped ==
    (parsed.steps = 1 /\ IsJoinedPair(SourceLines))
    => Normalized = Trim(Unmarked(SourceLines[1])) \o Trim(SourceLines[2])

\* C28, amended: when a continued line is joined with the next line, the
\* leading blanks of both lines are not in the joined line, and the blanks
\* before the continuation marker are: they separate the two pieces.
C28_BlanksBeforeMarkerKept ==
    (parsed.steps = 1 /\ IsJoinedPair(SourceLines))
    => LET first == Unmarked(SourceLines[1])
           blanks == Len(first) - Len(TrimEnd(first))
       IN /\ Normalized = TrimStart(first) \o Trim(SourceLines[2])
          /\ Len(Normalized)
                = Len(Trim(first)) + blanks + Len(Trim(SourceLines[2]))

C28_Witness ==
    /\ parsed.steps = 1
    /\ parsed.source = <<SP, "a", SP, BS, NL, SP, "a">>
    /\ Normalized = <<"a", SP, "a">>

\* C29: a Sql value constructed from the text of a Sql value has the same
\* text, for every source text of up to MaxLen characters.
C29_Idempotent ==
    parsed.steps = 2 => Normalized = parse_str(parsed.source)

\* What the directory says, written out by hand: the Sql value of a file
\* of the sub-directory name
ScriptOf(name, file) ==
    [sql_str |-> None,
     sql_string |-> Some(<<file>> \o [i \in 1..Len(name) |-> ToString(name[i])])]

\* the path of one sub-directory comes before the path of another one
RECURSIVE PathBefore(_, _)
PathBefore(x, y) ==
    \/ x = <<>> /\ y # <<>>
    \/ x # <<>> /\ y # <<>>
       /\ (x[1] < y[1] \/ (x[1] = y[1] /\ PathBefore(Tail(x), Tail(y))))

\* C30: the units loaded from a directory are those of sub-directories that
\* have an upgrade.sql, in ascending order of the sub-directory paths
\* whatever the order of enumeration, and a unit has a downgrade script
\* exactly if its sub-directory has a downgrade.sql.
C30_UnitsSortedAndPaired ==
    scan.units # None
    => LET units == scan.units[1]
       IN \E dirs \in [1..Len(units) -> DOMAIN scan.entries] :
            /\ \A i \in 1..(Len(units) - 1) : PathBefore(dirs[i], dirs[i + 1])
            /\ \A i \in 1..Len(units) :
                 LET e == scan.entries[dirs[i]]
                 IN /\ e.is_dir /\ e.upgrade # "absent"
                    /\ units[i].up = ScriptOf(dirs[i], "U")
                    /\ (units[i].down # None) <=> (e.downgrade # "absent")
                    /\ units[i].down # None
                       => units[i].down[1] = ScriptOf(dirs[i], "D")

\* C31: migrate_to(Some(T)) on n units read at version d, with
\* d <= T <= n-1, submits one batch: the upgrade statements of positions
\* d..T in list order and none of a later unit, then the statement setting
\* the version to T; when it succeeds it returns T and T is persisted.
C31_MigrateToUnits ==
    \A p \in Callers :
        LET c == call[p]
        IN (c.op = "migrate_to" /\ c.db_version # None
            /\ c.db_version[1] <= c.to_version[1]
            /\ c.to_version[1] <= NUnits - 1)
           => /\ c.pc \in {"write", "done"}
              /\ c.query.sql = UpRange(c.db_version[1], c.to_version[1])
                                   \o <<Stmt(PragmaSet(c.to_version[1]))>>
              /\ c.version = c.to_version[1]
              /\ c.pc = "done" => c.requests = <<"Query", "Execute">>
              /\ Succeeded(c) => /\ c.result[1].val = c.to_version[1]
                                 /\ user_version = c.to_version[1]

C31_Witness ==
    \E p \in Callers :
        /\ Succeeded(call[p]) /\ call[p].op = "migrate_to"
        /\ NUnits = 3 /\ call[p].db_version = Some(0)
        /\ call[p].to_version = Some(1)
        /\ call[p].query.sql = UpStatements(0) \o UpStatements(1)
                                  \o <<Stmt(PragmaSet(1))>>

\* What the answer to the version read says, written out by hand: the
\* first result of the answer the executor is set up to give, if any
FirstShape ==
    IF executor # None /\ IsOk(executor[1]) /\ executor[1].val # <<>>
    THEN Some(executor[1].val[1])
    ELSE None

\* C32: the version read is the unsigned integer in row 0, column 0 of the
\* first result, and when the first result is an error, has no rows or holds
\* another value there, the call fails with QueryFail after the read request
\* alone, whatever the later results are.
C32_VersionFromFirstResult ==
    \A p \in Callers :
        LET c == call[p]
        IN (executor # None /\ c.requests # <<>>)
           => /\ c.db_version # None
                 => FirstShape = Some("number") /\ c.db_version = Some(user_version)
              /\ (FirstShape # None /\ FirstShape[1] \in {"error", "empty", "text"})
                 => /\ c.pc = "done"
                    /\ IsErr(c.result[1])
                    /\ c.result[1].val.kind = "QueryFail"
                    /\ c.requests = <<"Query">>

\* C33: a migrate() that follows a migrate() whose write batch failed reads
\* the version the failed call read and submits the batch the failed call
\* submitted; when it succeeds, every unit of the list is applied and its
\* batch ran no upgrade of a unit that was applied already.
C33_RetrySameBatch ==
    \A p \in Callers :
        LET c == call[p]
        IN (c.op = "migrate" /\ c.failed # None)
           => /\ c.db_version # None
                 => /\ c.db_version[1] = c.failed[1].db_version
                    /\ c.pc \in {"write", "done"}
                    /\ c.query.sql = c.failed[1].sql
              /\ Succeeded(c)
                 => /\ { TableName(i) : i \in 0..(NUnits - 1) } \subseteq tables
                    /\ c.redo = {}

\* C34: two callers of migrate() that both read version d <= n before
\* either writes hold the same batch, the upgrade statements of positions
\* d..n-1; a write batch submitted while the database still is at the
\* version the call read (the calls are serialized) runs no upgrade of a
\* unit that is applied already.  The state in which a unit was upgraded
\* twice is the witness.
C34_ConcurrentMigrate ==
    [][ /\ (/\ call[1].pc = "write" /\ call[2].pc = "write"
            /\ call[1].db_version = Some(user_version)
            /\ call[2].db_version = Some(user_version)
            /\ user_version <= NUnits)
           => /\ call[1].query.sql = call[2].query.sql
              /\ call[1].query.sql = UpRange(user_version, NUnits - 1)
                                         \o <<Stmt(PragmaSet(NUnits))>>
        /\ \A p \in Callers :
             (/\ call[p].pc = "write" /\ call'[p].pc = "done"
              /\ call[p].db_version = Some(user_version))
             => call'[p].redo = {} ]_vars

C34_Witness ==
    /\ NUnits = 2
    /\ Succeeded(call[1]) /\ Succeeded(call[2])
    /\ call[1].db_version = Some(0) /\ call[2].db_version = Some(0)
    /\ call[1].query.sql = call[2].query.sql
    /\ call[1].redo = {}
    /\ call[2].redo = {TableName(0), TableName(1)}

\* What the error of an executor becomes, written out by hand.
TypedError(err) ==
    IF err.kind = "HttpError"
    THEN [kind |-> "TransactionFail", status |-> err.status, msg |-> err.msg]
    ELSE IF err.kind = "ResultError"
    THEN [kind |-> "QueryFail", status |-> 0, msg |-> err.msg]
    ELSE err.inner[1]

\* C35: when the executor returns an error for the read or for the write
\* request, the call ends there with an error and not with a version: an
\* HTTP error gives TransactionFail with its status and message, a result
\* error gives QueryFail with its message, a wrapped MigrationError gives
\* that error.
C35_ExecutorErrorTyped ==
    \A p \in Callers :
        LET c == call[p]
        IN /\ c.read_error # None
              => /\ c.pc = "done" /\ c.requests = <<"Query">>
                 /\ c.result = Some([tag |-> "Err", val |-> TypedError(c.read_error[1])])
           /\ (c.response # None /\ c.response[1].tag = "Err")
              => /\ c.pc = "done" /\ c.requests = <<"Query", "Execute">>
                 /\ c.result = Some([tag |-> "Err",
                                     val |-> TypedError(c.response[1].val)])

C35_Witness ==
    \E p \in Callers :
        /\ call[p].op = "migrate" /\ call[p].pc = "done"
        /\ call[p].response # None
        /\ call[p].response[1] = [tag |-> "Err",
               val |-> [kind |-> "HttpError", status |-> 500, msg |-> <<"fail">>,
                        inner |-> <<>>]]
        /\ call[p].result[1].val = [kind |-> "TransactionFail", status |-> 500,
                                     msg |-> <<"fail">>]

\* the places of the query string where the token stands
Places(tokens, token) == { i \in 1..Len(tokens) : tokens[i] = token }

HasQ(url) == Places(Tokens(url), "q=") \cup Places(Tokens(url), "&q=") # {}

\* C37: the URL of a query not read before has the statement as its q
\* argument exactly when the endpoint is the query endpoint and the
\* statements are one string alone; after a push, and after set_sql with an
\* array, it has none.
C37_QOnlySingleString ==
    [][ LET q == builder'.query
            url == to_string(q)
        IN q.url_cache = None
           => /\ HasQ(url) <=> (/\ q.endpoint = "Query"
                                /\ Len(q.sql) = 1
                                /\ q.sql[1].t = "String")
              /\ HasQ(url) => EndsWithQ(url, q.sql[1].s)
              /\ Called(PushOps) => ~HasQ(url)
              /\ (Called({"set_sql"}) /\ builder'.arg[1].t = "Array")
                 => ~HasQ(url) ]_vars

C37_Witness ==
    /\ builder.op = "set_sql" /\ builder.steps = 2
    /\ builder.query.is_timing
    /\ builder.query.url_cache = None
    /\ builder.query.sql = << ValString(<<"S">>) >>
    /\ Tokens(to_string(builder.query)) = <<"timing", "&q=", "S">>

\* the counter of rollback_to after k units of the reversed list, for the
\* version read and the target
RollbackCounter(migs, db_version, to_version, k) ==
    rollback_loop(SubSeq(migs, Len(migs) - k + 1, Len(migs)), k, to_version,
                  [version |-> db_version,
                   query |-> enable_transaction_helper(ConnectionExecute)]).version

\* C38: in every rollback_to that gets past the version read, the counter is
\* never below 0 on the way through the list, a counter of 0 stays 0 at the
\* units after it, and the version written is the last counter, between 0
\* and the version read.
C38_CounterNeverUnderflows ==
    \A p \in Callers :
       LET c == call[p]
           n == Len(migrations)
           counter(k) == RollbackCounter(migrations, c.db_version[1],
                                         c.to_version[1], k)
       IN (c.op = "rollback_to" /\ c.pc = "write")
          => /\ \A k \in 0..n : counter(k) \in 0..c.db_version[1]
             /\ \A k \in 1..n : counter(k - 1) = 0 => counter(k) = 0
             /\ c.version = counter(n)
             /\ c.query.sql[Len(c.query.sql)]
                   = ValArray(<<ValString(<<"PRAGMA user_version=",
                                            ToString(counter(n))>>)>>)

\* the counter is 0 before the first of two units without a downgrade
\* script, and the call writes version 0
C38_Witness ==
    LET c == call[1]
    IN /\ c.op = "rollback_to" /\ c.pc = "done" /\ c.response # None
       /\ c.result = Some(Ok(0))
       /\ user_version = 0
       /\ Len(migrations) = 3
       /\ migrations[1].down = None /\ migrations[2].down = None
       /\ migrations[3].down # None
       /\ c.db_version = Some(1)
       /\ RollbackCounter(migrations, 1, 0, 1) = 0

\* C39: on every query the builder reaches, the wait flag is set only with
\* the queue flag; set_wait on a query that is not queued leaves the wait
\* flag unset, on a queued one it sets it; no call clears the queue flag.
C39_WaitOnlyWithQueue ==
    [][ LET a == builder.query
            b == builder'.query
        IN /\ a.is_wait => a.is_queue
           /\ b.is_wait => b.is_queue
           /\ a.is_queue => b.is_queue
           /\ Called({"set_wait"})
              => /\ b.is_wait <=> a.is_queue
                 /\ b.is_queue <=> a.is_queue ]_vars

C39_Witness ==
    /\ builder.op = "set_wait" /\ builder.steps = 2
    /\ builder.query.endpoint = "Execute"
    /\ Len(builder.query.sql) = 1
    /\ ~builder.query.is_queue
    /\ ~builder.query.is_wait

\* the level the state type of a query stands for
StateLevel(state) ==
    CASE state \in {"NoLevel", "NoLevelMulti"} -> "Nolevel"
      [] state \in {"LevelNone", "LevelNoneMulti"} -> "None"
      [] state \in {"LevelWeak", "LevelWeakMulti"} -> "Weak"
      [] state \in {"LevelStrong", "LevelStrongMulti"} -> "Strong"

\* C40: on every query the builder reaches from Connection::query, execute
\* or request, a level is stored (the unwrap of push_sql and switch_multi
\* finds one), it is the level of the state type, and a query in a state
\* type that has set_sql has the query endpoint, so that set_sql with any
\* value returns and does not panic.
C40_NoPanicReachable ==
    LET q == builder.query
    IN /\ q.consistency_level # None
       /\ Len(q.consistency_level) = 1
       /\ q.consistency_level[1] = StateLevel(q.state)
       /\ q.state \in SingleStates
          => /\ q.endpoint = "Query"
             /\ \A v \in SqlValues : set_sql_helper(q, v).tag = "Ok"

\* set_weak, set_sql and push_sql on connection.query(): the string at the
\* head of the statements is the one set_sql stored
C40_Witness ==
    /\ builder.op = "push_sql" /\ builder.steps = 3
    /\ builder.query.state = "LevelWeakMulti"
    /\ builder.query.consistency_level = Some("Weak")
    /\ builder.query.endpoint = "Query"
    /\ Len(builder.query.sql) = 2
    /\ builder.query.sql[1] = ValString(<<"S">>)

====
